---- MODULE Spec2Model ----
(***************************************************************************)
(* Model of stock_investment_app.py: the four indicator stages             *)
(* (calculate_moving_averages, calculate_rsi, calculate_macd,              *)
(* identify_signals) and the Streamlit "Analyze" handler that runs them.   *)
(*                                                                         *)
(* A DataFrame is a function from column names to columns; a column is a   *)
(* sequence indexed 1..n (row i of the model is pandas row i-1).  A float  *)
(* cell is an exact rational, NaN, or a signed infinity; arithmetic and    *)
(* comparisons follow IEEE-754 on those (rounding is not modelled).        *)
(* Item assignment through data['Signal'][mask] is modelled as writing     *)
(* through to the frame, as it does in pandas without copy-on-write.       *)
(***************************************************************************)
EXTENDS Integers, Sequences, FiniteSets, TLC

VARIABLES pc, stock_data, output, calls, last, args, raised

vars == <<pc, stock_data, output, calls, last, args, raised>>

(***************************************************************************)
(* Bounds of the model.                                                    *)
(***************************************************************************)
\* Close prices are drawn from 1..MaxPrice.
MaxPrice == 3
\* Longest series handed directly to a stage function.
MaxLen == 3
\* Largest rolling window handed directly to a stage function.
MaxWindow == 3
\* Largest EMA span handed directly to calculate_macd.
MaxSpan == 3
\* Longest series the app's fetch returns without a long flat history.
MaxFetched == 2
\* Most rows the app's fetch returns after a long flat history.
MaxTail == 1

(***************************************************************************)
(* Defaults of the stage functions, used by the Analyze handler.           *)
(***************************************************************************)
MA_SHORT_WINDOW == 50
MA_LONG_WINDOW == 200
RSI_WINDOW == 14
MACD_SHORT_WINDOW == 12
MACD_LONG_WINDOW == 26
MACD_SIGNAL_WINDOW == 9

(***************************************************************************)
(* Float cells.                                                            *)
(***************************************************************************)
Abs(x) == IF x < 0 THEN -x ELSE x

RECURSIVE Gcd(_, _)
Gcd(a, b) == IF b = 0 THEN a ELSE Gcd(b, a % b)

Sign(x) == IF x > 0 THEN 1 ELSE IF x < 0 THEN -1 ELSE 0

NaN == [kind |-> "nan", num |-> 0, den |-> 1]

Inf(s) == [kind |-> "inf", num |-> s, den |-> 1]

\* The rational n/d (d # 0) in lowest terms with a positive denominator.
Num(n, d) ==
  LET g == Gcd(Abs(n), Abs(d))
      s == IF d < 0 THEN -1 ELSE 1
  IN  [kind |-> "num", num |-> s * (n \div g), den |-> s * (d \div g)]

IsNaN(x) == x.kind = "nan"

IsNum(x) == x.kind = "num"

FNeg(x) ==
  IF x.kind = "nan" THEN NaN
  ELSE IF x.kind = "inf" THEN Inf(-x.num)
  ELSE Num(-x.num, x.den)

FAdd(x, y) ==
  IF x.kind = "nan" \/ y.kind = "nan" THEN NaN
  ELSE IF x.kind = "inf" /\ y.kind = "inf"
       THEN (IF x.num = y.num THEN x ELSE NaN)
  ELSE IF x.kind = "inf" THEN x
  ELSE IF y.kind = "inf" THEN y
  ELSE LET g == Gcd(x.den, y.den)
       IN  Num(x.num * (y.den \div g) + y.num * (x.den \div g),
               (x.den \div g) * y.den)

FSub(x, y) == FAdd(x, FNeg(y))

FMul(x, y) ==
  IF x.kind = "nan" \/ y.kind = "nan" THEN NaN
  ELSE IF x.kind = "inf" \/ y.kind = "inf"
       THEN (IF Sign(x.num) * Sign(y.num) = 0 THEN NaN
             ELSE Inf(Sign(x.num) * Sign(y.num)))
  ELSE LET g1 == Gcd(Abs(x.num), y.den)
           g2 == Gcd(Abs(y.num), x.den)
       IN  Num((x.num \div g1) * (y.num \div g2),
               (x.den \div g2) * (y.den \div g1))

\* FDiv with division by zero trapped: x/0 is reported as undefined.
FDiv_trapped(x, y) ==
  IF x.kind = "nan" \/ y.kind = "nan" THEN NaN
  ELSE IF x.kind = "inf"
       THEN (IF y.kind = "inf" THEN NaN
             ELSE Inf(x.num * (IF y.num < 0 THEN -1 ELSE 1)))
  ELSE IF y.kind = "inf" THEN Num(0, 1)
  ELSE IF y.num = 0 THEN NaN
  ELSE FMul(x, Num(y.den, y.num))

\* Float division: x/0 is NaN for x = 0 and a signed infinity otherwise;
\* nothing is raised.
FDiv(x, y) ==
  IF x.kind = "nan" \/ y.kind = "nan" THEN NaN
  ELSE IF x.kind = "inf"
       THEN (IF y.kind = "inf" THEN NaN
             ELSE Inf(x.num * (IF y.num < 0 THEN -1 ELSE 1)))
  ELSE IF y.kind = "inf" THEN Num(0, 1)
  ELSE IF y.num = 0
       THEN (IF x.num = 0 THEN NaN ELSE Inf(Sign(x.num)))
  ELSE FMul(x, Num(y.den, y.num))

\* x > y; False whenever an operand is NaN.
FGt(x, y) ==
  IF x.kind = "nan" \/ y.kind = "nan" THEN FALSE
  ELSE IF x.kind = "inf" THEN x.num = 1 /\ ~(y.kind = "inf" /\ y.num = 1)
  ELSE IF y.kind = "inf" THEN y.num = -1
  ELSE x.num * y.den > y.num * x.den

\* FLe read as "not greater": True of NaN operands.
FLe_not_greater(x, y) == ~FGt(x, y)

\* x <= y; False whenever an operand is NaN.
FLe(x, y) ==
  IF x.kind = "nan" \/ y.kind = "nan" THEN FALSE
  ELSE ~FGt(x, y)

FLt(x, y) == FGt(y, x)

Zero == Num(0, 1)

Hundred == Num(100, 1)

(***************************************************************************)
(* pandas Series operations used by the stages.                            *)
(***************************************************************************)
\* Series.diff(): row 0 is NaN.
Diff(col) ==
  [i \in 1..Len(col) |-> IF i = 1 THEN NaN ELSE FSub(col[i], col[i - 1])]

\* WherePositive keeping NaN cells (as delta.clip(lower=0) would).
WherePositive_keep_nan(col) ==
  [i \in 1..Len(col) |->
     IF IsNaN(col[i]) THEN NaN
     ELSE IF FGt(col[i], Zero) THEN col[i] ELSE Zero]

\* delta.where(delta > 0, 0)
WherePositive(col) ==
  [i \in 1..Len(col) |-> IF FGt(col[i], Zero) THEN col[i] ELSE Zero]

\* delta.where(delta < 0, 0)
WhereNegative(col) ==
  [i \in 1..Len(col) |-> IF FLt(col[i], Zero) THEN col[i] ELSE Zero]

NegCol(col) == [i \in 1..Len(col) |-> FNeg(col[i])]

\* One row added to the running totals: tot[i] is the pair <<sum, count>>
\* of the observations (non-NaN cells) among rows 1..i.
AddRow(tot, x) ==
  LET base == IF Len(tot) = 0 THEN <<Zero, 0>> ELSE tot[Len(tot)]
  IN  Append(tot, IF IsNaN(x) THEN base
                  ELSE <<FAdd(base[1], x), base[2] + 1>>)

\* The running totals after a left-to-right pass over rows lo..hi of col,
\* starting from tot.
RECURSIVE TotalsRows(_, _, _, _)
TotalsRows(tot, col, lo, hi) ==
  IF lo > hi THEN tot
  ELSE IF lo = hi THEN AddRow(tot, col[lo])
  ELSE LET mid == (lo + hi) \div 2
           left == TotalsRows(tot, col, lo, mid)
       IN  \* the left half is evaluated before the right half starts
           IF left = tot THEN TotalsRows(tot, col, mid + 1, hi)
           ELSE TotalsRows(left, col, mid + 1, hi)

Totals(col) == TotalsRows(<< >>, col, 1, Len(col))

\* RollingMean with min_periods = 1: the mean of the rows available.
RollingMean_min_periods_1(col, w) ==
  LET tot == Totals(col)
  IN  [i \in 1..Len(col) |->
         LET hi == tot[i]
             lo == IF i <= w THEN <<Zero, 0>> ELSE tot[i - w]
         IN  IF hi[2] - lo[2] < 1 THEN NaN
             ELSE FDiv(FSub(hi[1], lo[1]), Num(hi[2] - lo[2], 1))]

\* Series.rolling(window=w).mean() with min_periods = w: the mean of rows
\* i-w+1..i when all w of them are observations, NaN otherwise.
RollingMean(col, w) ==
  LET tot == Totals(col)
  IN  [i \in 1..Len(col) |->
         IF i < w THEN NaN
         ELSE LET hi == tot[i]
                  lo == IF i = w THEN <<Zero, 0>> ELSE tot[i - w]
              IN  IF hi[2] - lo[2] < w THEN NaN
                  ELSE FDiv(FSub(hi[1], lo[1]), Num(w, 1))]

\* a = 2 / (span + 1)
Alpha(span) == Num(2, span + 1)

\* One row added to the exponentially weighted means ys: the first row
\* seeds the mean, every later row x gives (1 - a) * y + a * x.
EwmRow(ys, x, span) ==
  IF Len(ys) = 0 THEN <<x>>
  ELSE Append(ys, FAdd(FMul(FSub(Num(1, 1), Alpha(span)), ys[Len(ys)]),
                       FMul(Alpha(span), x)))

\* The means after a left-to-right pass over rows lo..hi of col, starting
\* from ys.
RECURSIVE EwmRows(_, _, _, _, _)
EwmRows(ys, col, span, lo, hi) ==
  IF lo > hi THEN ys
  ELSE IF lo = hi THEN EwmRow(ys, col[lo], span)
  ELSE LET mid == (lo + hi) \div 2
           left == EwmRows(ys, col, span, lo, mid)
       IN  \* the left half is evaluated before the right half starts
           IF left = ys THEN EwmRows(ys, col, span, mid + 1, hi)
           ELSE EwmRows(left, col, span, mid + 1, hi)

\* EwmMean with min_periods = span: an undefined prefix of span-1 rows.
EwmMean_min_periods(col, span) ==
  LET full == EwmRows(<< >>, col, span, 1, Len(col))
  IN  [i \in 1..Len(col) |-> IF i < span THEN NaN ELSE full[i]]

\* Series.ewm(span=span, adjust=False).mean(): seeded with row 0, then
\* y[i] = (1 - a) * y[i-1] + a * x[i].
EwmMean(col, span) == EwmRows(<< >>, col, span, 1, Len(col))

ColSub(a, b) == [i \in 1..Len(a) |-> FSub(a[i], b[i])]

(***************************************************************************)
(* DataFrames.                                                             *)
(***************************************************************************)
\* The value None (fetch_stock_data's result after an exception).
None == [c \in {} |-> << >>]

\* A frame holding only the Close column.
Frame(close) == [c \in {"Close"} |-> close]

Rows(data) == Len(data["Close"])

\* data[name] = col
SetCol(data, name, col) ==
  [c \in DOMAIN data \cup {name} |-> IF c = name THEN col ELSE data[c]]

HasCol(data, name) == name \in DOMAIN data

(***************************************************************************)
(* The stage functions.  Each mutates the frame it is given and returns    *)
(* it; the operator's value is the frame after the call.                   *)
(***************************************************************************)
calculate_moving_averages(data, short_window, long_window) ==
  LET d1 == SetCol(data, "Short_MA", RollingMean(data["Close"], short_window))
  IN  SetCol(d1, "Long_MA", RollingMean(d1["Close"], long_window))

\* gain of calculate_rsi: the rolling mean of the positive price changes.
AvgGain(close, window) == RollingMean(WherePositive(Diff(close)), window)

\* loss of calculate_rsi: the rolling mean of the negated negative changes.
AvgLoss(close, window) == RollingMean(NegCol(WhereNegative(Diff(close))), window)

\* 100 - (100 / (1 + rs)) with rs = gain / loss, cell by cell.
RsiCell(gain, loss) ==
  FSub(Hundred, FDiv(Hundred, FAdd(Num(1, 1), FDiv(gain, loss))))

calculate_rsi(data, window) ==
  LET gain == AvgGain(data["Close"], window)
      loss == AvgLoss(data["Close"], window)
  IN  SetCol(data, "RSI",
             [i \in 1..Rows(data) |-> RsiCell(gain[i], loss[i])])

\* calculate_macd storing the signal line under the name 'Signal'.
calculate_macd_signal_column(data, short_window, long_window, signal_window) ==
  LET d1 == SetCol(data, "MACD",
                   ColSub(EwmMean(data["Close"], short_window),
                          EwmMean(data["Close"], long_window)))
  IN  SetCol(d1, "Signal", EwmMean(d1["MACD"], signal_window))

calculate_macd(data, short_window, long_window, signal_window) ==
  LET d1 == SetCol(data, "MACD",
                   ColSub(EwmMean(data["Close"], short_window),
                          EwmMean(data["Close"], long_window)))
  IN  SetCol(d1, "Signal_Line", EwmMean(d1["MACD"], signal_window))

\* data['Signal'][mask] = value
MaskAssign(data, mask, value) ==
  SetCol(data, "Signal",
         [i \in 1..Rows(data) |-> IF mask[i] THEN value ELSE data["Signal"][i]])

\* identify_signals raises KeyError at its first read of a missing column.
identify_signals_raises(data) ==
  ~HasCol(data, "Short_MA") \/ ~HasCol(data, "Long_MA")

\* identify_signals with an else branch: -1 wherever Short_MA is not
\* greater than Long_MA, NaN included.
identify_signals_else(data) ==
  LET d0 == SetCol(data, "Signal", [i \in 1..Rows(data) |-> 0])
  IN  IF identify_signals_raises(d0) THEN d0
      ELSE MaskAssign(
             MaskAssign(d0, [i \in 1..Rows(d0) |-> TRUE], -1),
             [i \in 1..Rows(d0) |->
                FGt(d0["Short_MA"][i], d0["Long_MA"][i])], 1)

\* identify_signals with the tie on the buy side (>= and <).
identify_signals_tie(data) ==
  LET d0 == SetCol(data, "Signal", [i \in 1..Rows(data) |-> 0])
  IN  IF identify_signals_raises(d0) THEN d0
      ELSE LET d1 == MaskAssign(d0,
                       [i \in 1..Rows(d0) |->
                          FLe(d0["Long_MA"][i], d0["Short_MA"][i])], 1)
           IN  MaskAssign(d1,
                       [i \in 1..Rows(d1) |->
                          FLt(d1["Short_MA"][i], d1["Long_MA"][i])], -1)

\* The frame identify_signals leaves behind (also when it raises: the frame
\* is mutated in place, and the Signal column is assigned before the
\* moving averages are read).
identify_signals(data) ==
  LET d0 == SetCol(data, "Signal", [i \in 1..Rows(data) |-> 0])
  IN  IF identify_signals_raises(d0) THEN d0
      ELSE LET d1 == MaskAssign(d0,
                       [i \in 1..Rows(d0) |->
                          FGt(d0["Short_MA"][i], d0["Long_MA"][i])], 1)
           IN  MaskAssign(d1,
                       [i \in 1..Rows(d1) |->
                          FLe(d1["Short_MA"][i], d1["Long_MA"][i])], -1)

(***************************************************************************)
(* Inputs.                                                                 *)
(***************************************************************************)
Prices == 1..MaxPrice

\* A Close column from integer prices.
CloseOf(s) == [i \in 1..Len(s) |-> Num(s[i], 1)]

SeqsUpTo(n) == UNION {[1..k -> Prices] : k \in 0..n}

\* Series handed directly to a stage function.
Series == {CloseOf(s) : s \in SeqsUpTo(MaxLen)}

Windows == 1..MaxWindow

Spans == 1..MaxSpan

Defaults ==
  [short_window |-> MA_SHORT_WINDOW, long_window |-> MA_LONG_WINDOW,
   window |-> RSI_WINDOW, macd_short |-> MACD_SHORT_WINDOW,
   macd_long |-> MACD_LONG_WINDOW, macd_signal |-> MACD_SIGNAL_WINDOW]

StageNames ==
  <<"calculate_moving_averages", "calculate_rsi", "calculate_macd",
    "identify_signals">>

(***************************************************************************)
(* Direct calls of the stage functions (pc = "lib"): the library used      *)
(* without the Streamlit handler.  args holds the parameters every call    *)
(* of a behaviour passes.                                                  *)
(***************************************************************************)
LibInit(argset) ==
  /\ pc = "lib"
  /\ stock_data \in {Frame(s) : s \in Series}
  /\ args \in argset
  /\ output = << >>
  /\ calls = << >>
  /\ last = "none"
  /\ raised = "none"

CallMovingAverages ==
  /\ pc = "lib"
  /\ stock_data' = calculate_moving_averages(stock_data, args.short_window,
                                             args.long_window)
  /\ last' = StageNames[1]
  /\ UNCHANGED <<pc, output, calls, args, raised>>

CallRsi ==
  /\ pc = "lib"
  /\ stock_data' = calculate_rsi(stock_data, args.window)
  /\ last' = StageNames[2]
  /\ UNCHANGED <<pc, output, calls, args, raised>>

CallMacd ==
  /\ pc = "lib"
  /\ stock_data' = calculate_macd(stock_data, args.macd_short, args.macd_long,
                                  args.macd_signal)
  /\ last' = StageNames[3]
  /\ UNCHANGED <<pc, output, calls, args, raised>>

CallIdentifySignals ==
  /\ pc = "lib"
  /\ stock_data' = identify_signals(stock_data)
  /\ last' = StageNames[4]
  /\ raised' = IF identify_signals_raises(stock_data) THEN "KeyError" ELSE "none"
  /\ pc' = IF identify_signals_raises(stock_data) THEN "raised" ELSE "lib"
  /\ UNCHANGED <<output, calls, args>>

\* Moving averages and signal derivation, over every pair of windows.
MAArgs ==
  {[Defaults EXCEPT !.short_window = s, !.long_window = l] :
     s \in Windows, l \in Windows}

InitMA == LibInit(MAArgs)

NextMA == CallMovingAverages \/ CallIdentifySignals

SpecMA == InitMA /\ [][NextMA]_vars

\* RSI over every window.
RsiArgs == {[Defaults EXCEPT !.window = w] : w \in Windows}

InitRSI == LibInit(RsiArgs)

NextRSI == CallRsi

SpecRSI == InitRSI /\ [][NextRSI]_vars

\* MACD over every triple of spans.
MacdArgs ==
  {[Defaults EXCEPT !.macd_short = s, !.macd_long = l, !.macd_signal = g] :
     s \in Spans, l \in Spans, g \in Spans}

InitMACD == LibInit(MacdArgs)

NextMACD == CallMacd

SpecMACD == InitMACD /\ [][NextMACD]_vars

(***************************************************************************)
(* The Streamlit script: one run per click of "Analyze".                   *)
(***************************************************************************)
\* A flat history one row short of the default long window.
History(p) == [i \in 1..(MA_LONG_WINDOW - 1) |-> p]

\* The price series yf.download may return: short ones, and ones that
\* reach the default long window.
FetchedSeries ==
  {CloseOf(s) : s \in SeqsUpTo(MaxFetched)}
  \cup {CloseOf(History(p) \o t) : p \in Prices, t \in SeqsUpTo(MaxTail)}

\* fetch_stock_data: the downloaded frame (which may be empty), or None
\* after an exception.
FetchResults == {None} \cup {Frame(s) : s \in FetchedSeries}

\* HasData without the emptiness test.
HasData_not_none(data) == data # None

\* stock_data is not None and not stock_data.empty
HasData(data) == data # None /\ Rows(data) > 0

\* The recommendation branch on last_signal.
Recommendation(last_signal) ==
  IF last_signal = 1 THEN "BUY"
  ELSE IF last_signal = -1 THEN "SELL"
  ELSE "HOLD"

Init ==
  /\ pc = "idle"
  /\ stock_data = None
  /\ args = Defaults
  /\ output = << >>
  /\ calls = << >>
  /\ last = "none"
  /\ raised = "none"

\* The button is clicked: the script fetches the data.
Analyze ==
  /\ pc = "idle"
  /\ \E r \in FetchResults :
       /\ stock_data' = r
       /\ output' = IF r = None THEN <<"Error fetching stock data">> ELSE << >>
  /\ pc' = "fetched"
  /\ UNCHANGED <<calls, last, args, raised>>

StageMovingAverages ==
  /\ pc = "fetched"
  /\ HasData(stock_data)
  /\ stock_data' = calculate_moving_averages(stock_data, args.short_window,
                                             args.long_window)
  /\ calls' = Append(calls, StageNames[1])
  /\ last' = StageNames[1]
  /\ pc' = "rsi"
  /\ UNCHANGED <<output, args, raised>>

StageRsi ==
  /\ pc = "rsi"
  /\ stock_data' = calculate_rsi(stock_data, args.window)
  /\ calls' = Append(calls, StageNames[2])
  /\ last' = StageNames[2]
  /\ pc' = "macd"
  /\ UNCHANGED <<output, args, raised>>

StageMacd ==
  /\ pc = "macd"
  /\ stock_data' = calculate_macd(stock_data, args.macd_short, args.macd_long,
                                  args.macd_signal)
  /\ calls' = Append(calls, StageNames[3])
  /\ last' = StageNames[3]
  /\ pc' = "signals"
  /\ UNCHANGED <<output, args, raised>>

StageSignals ==
  /\ pc = "signals"
  /\ stock_data' = identify_signals(stock_data)
  /\ calls' = Append(calls, StageNames[4])
  /\ last' = StageNames[4]
  /\ raised' = IF identify_signals_raises(stock_data) THEN "KeyError" ELSE "none"
  /\ pc' = IF identify_signals_raises(stock_data) THEN "raised" ELSE "display"
  /\ UNCHANGED <<output, args>>

\* The table and the three charts: they read the frame.
Display ==
  /\ pc = "display"
  /\ output' = Append(output, "Charts")
  /\ pc' = "recommend"
  /\ UNCHANGED <<stock_data, calls, last, args, raised>>

Recommend ==
  /\ pc = "recommend"
  /\ output' = Append(output,
                      Recommendation(stock_data["Signal"][Rows(stock_data)]))
  /\ pc' = "done"
  /\ UNCHANGED <<stock_data, calls, last, args, raised>>

NoData ==
  /\ pc = "fetched"
  /\ ~HasData(stock_data)
  /\ output' = Append(output, "No data found")
  /\ pc' = "done"
  /\ UNCHANGED <<stock_data, calls, last, args, raised>>

\* The next interaction reruns the script from the top with fresh state.
Rerun ==
  /\ pc = "done"
  /\ pc' = "idle"
  /\ stock_data' = None
  /\ output' = << >>
  /\ calls' = << >>
  /\ last' = "none"
  /\ UNCHANGED <<args, raised>>

Next ==
  \/ Analyze
  \/ StageMovingAverages
  \/ StageRsi
  \/ StageMacd
  \/ StageSignals
  \/ Display
  \/ Recommend
  \/ NoData
  \/ Rerun

Spec == Init /\ [][Next]_vars

(***************************************************************************)
(* All four stage functions called directly, in any order and any number   *)
(* of times, with one set of parameters per behaviour.                     *)
(***************************************************************************)
StageArgs ==
  {[short_window |-> k, long_window |-> k + 1, window |-> k,
    macd_short |-> k, macd_long |-> k + 1, macd_signal |-> k] : k \in Windows}

InitStages == LibInit(StageArgs)

NextStages ==
  \/ CallMovingAverages
  \/ CallRsi
  \/ CallMacd
  \/ CallIdentifySignals

SpecStages == InitStages /\ [][NextStages]_vars

(***************************************************************************)
(* Properties.                                                             *)
(***************************************************************************)
\* a/b > c/d on cells holding numbers
RatGt(x, y) == x.num * y.den > y.num * x.den

\* The integer price at row i of a Close column.
PriceAt(close, i) == close[i].num

RECURSIVE SumPrices(_, _, _)
SumPrices(close, lo, hi) ==
  IF lo > hi THEN 0 ELSE PriceAt(close, hi) + SumPrices(close, lo, hi - 1)

SignalsDerived ==
  /\ raised = "none"
  /\ HasCol(stock_data, "Signal")
  /\ HasCol(stock_data, "Short_MA")
  /\ HasCol(stock_data, "Long_MA")

Undefined(i) ==
  IsNaN(stock_data["Short_MA"][i]) \/ IsNaN(stock_data["Long_MA"][i])

C3_DefinedSignal ==
  SignalsDerived =>
    \A i \in 1..Rows(stock_data) :
      ~Undefined(i) =>
        stock_data["Signal"][i] =
          IF RatGt(stock_data["Short_MA"][i], stock_data["Long_MA"][i])
          THEN 1 ELSE -1

\* C3 witness: one date with short_ma above long_ma and one date with a tie.
C3_Witness ==
  /\ SignalsDerived
  /\ \E i \in 1..Rows(stock_data) :
       /\ ~Undefined(i)
       /\ RatGt(stock_data["Short_MA"][i], stock_data["Long_MA"][i])
       /\ stock_data["Signal"][i] = 1
  /\ \E i \in 1..Rows(stock_data) :
       /\ ~Undefined(i)
       /\ stock_data["Short_MA"][i] = stock_data["Long_MA"][i]
       /\ stock_data["Signal"][i] = -1

\* col is the rolling mean of close over window w: as long as close, NaN
\* on the first w-1 rows, and w times the cell equal to the sum of the
\* window's prices on every later row.
IsRollingMean(col, close, w) ==
  /\ Len(col) = Len(close)
  /\ \A i \in 1..Len(close) :
       IF i < w THEN IsNaN(col[i])
       ELSE /\ IsNum(col[i])
            /\ col[i].num * w = col[i].den * SumPrices(close, i - w + 1, i)

\* C4: calculate_moving_averages gives columns of the series' length whose
\* first min(w-1, n) entries are undefined and whose other entries are the
\* arithmetic mean of close[i-w+1 .. i]; a series shorter than the window
\* gives an entirely undefined column and nothing is raised.
C4_MovingAverages ==
  HasCol(stock_data, "Short_MA") =>
    /\ HasCol(stock_data, "Long_MA")
    /\ IsRollingMean(stock_data["Short_MA"], stock_data["Close"],
                     args.short_window)
    /\ IsRollingMean(stock_data["Long_MA"], stock_data["Close"],
                     args.long_window)
    /\ (last = StageNames[1] => raised = "none" /\ pc = "lib")

\* C4 witness: a two-row series with window 2 (one undefined entry, one
\* mean) and window 3 (longer than the series).
C4_Witness ==
  /\ HasCol(stock_data, "Short_MA")
  /\ last = StageNames[1]
  /\ Rows(stock_data) = 2
  /\ args.short_window = 2
  /\ args.long_window = 3
  /\ IsNaN(stock_data["Short_MA"][1])
  /\ IsNum(stock_data["Short_MA"][2])
  /\ IsNaN(stock_data["Long_MA"][2])

\* C5 as stated: identify_signals on a frame without the moving-average
\* columns fails and leaves the frame without any Signal column.
C5_NoSignalOnFailure ==
  raised = "KeyError" => ~HasCol(stock_data, "Signal")

Recommendations == {"BUY", "SELL", "HOLD"}

\* The recommendation the run displayed, if any.
Shown == {output[k] : k \in 1..Len(output)} \cap Recommendations

InStageOrder ==
  /\ Len(calls) <= Len(StageNames)
  /\ \A k \in 1..Len(calls) : calls[k] = StageNames[k]

Fetched == stock_data # None /\ Len(stock_data["Close"]) > 0

\* C6: the stages run only on a fetched, non-empty series; after a failed
\* or empty fetch no stage runs and "no data" is shown; when they run, each
\* runs once in the order moving averages, RSI, MACD, signal derivation,
\* and the recommendation is read only after signal derivation.
C6_StagesOnlyOnData ==
  /\ InStageOrder
  /\ calls # << >> => Fetched
  /\ (pc = "done" /\ ~Fetched) =>
       calls = << >> /\ output[Len(output)] = "No data found"
  /\ (pc = "done" /\ Fetched) => calls = StageNames /\ Shown # {}
  /\ Shown # {} => calls = StageNames /\ HasCol(stock_data, "Signal")
  /\ pc \in {"display", "recommend"} => calls = StageNames
  /\ raised = "none"

\* C6 witness: a finished run in which all four stages ran and a
\* recommendation is displayed.
C6_Witness ==
  /\ pc = "done"
  /\ calls = StageNames
  /\ Shown # {}
  /\ Rows(stock_data) = 2

RsiDone == HasCol(stock_data, "RSI")

\* Some price rise (fall) between consecutive rows of the window ending at
\* row i; the change into row 1 is missing and counts as neither.
Rises(close, i, w) ==
  \E j \in (i - w + 1)..i :
    j >= 2 /\ PriceAt(close, j) > PriceAt(close, j - 1)

Falls(close, i, w) ==
  \E j \in (i - w + 1)..i :
    j >= 2 /\ PriceAt(close, j) < PriceAt(close, j - 1)

StrictlyIncreasing(close) ==
  \A j \in 2..Len(close) : PriceAt(close, j) > PriceAt(close, j - 1)

Constant(close) ==
  \A j \in 2..Len(close) : PriceAt(close, j) = PriceAt(close, j - 1)

\* C7: rsi lies in [0, 100] wherever it is defined; where the window holds
\* no loss and some gain it is exactly 100; so for a strictly increasing
\* series it is 100 at every index i >= w (row i+1 of the model).
C7_RsiRange ==
  RsiDone =>
    LET close == stock_data["Close"]
        rsi == stock_data["RSI"]
        w == args.window
    IN  /\ \A i \in 1..Len(close) :
             /\ ~IsNaN(rsi[i]) =>
                  /\ IsNum(rsi[i])
                  /\ 0 <= rsi[i].num
                  /\ rsi[i].num <= 100 * rsi[i].den
             /\ (i >= w /\ Rises(close, i, w) /\ ~Falls(close, i, w)) =>
                  rsi[i] = Hundred
        /\ StrictlyIncreasing(close) =>
             \A i \in 1..Len(close) : i >= w + 1 => rsi[i] = Hundred

\* C7 witness: a strictly increasing three-row series with window 2, RSI
\* saturated at its last row.
C7_Witness ==
  /\ RsiDone
  /\ args.window = 2
  /\ Rows(stock_data) = 3
  /\ StrictlyIncreasing(stock_data["Close"])
  /\ stock_data["RSI"][3] = Hundred

\* C8: rsi is undefined exactly on the first w-1 rows and on the rows whose
\* window holds neither a gain nor a loss; nothing is raised; for a constant
\* series it is undefined at every row.
C8_RsiUndefined ==
  RsiDone =>
    LET close == stock_data["Close"]
        rsi == stock_data["RSI"]
        w == args.window
    IN  /\ Len(rsi) = Len(close)
        /\ \A i \in 1..Len(close) :
             IsNaN(rsi[i]) <=>
               (i < w \/ (~Rises(close, i, w) /\ ~Falls(close, i, w)))
        /\ Constant(close) => \A i \in 1..Len(close) : IsNaN(rsi[i])
        /\ raised = "none"
        /\ pc = "lib"

\* C8 witness: window 2 over a constant three-row series: row 1 is undefined
\* because the window has not filled, rows 2 and 3 because their windows
\* hold neither a gain nor a loss.
C8_Witness ==
  /\ RsiDone
  /\ args.window = 2
  /\ Rows(stock_data) = 3
  /\ Constant(stock_data["Close"])
  /\ \A i \in 1..3 : IsNaN(stock_data["RSI"][i])

MacdDone == HasCol(stock_data, "MACD") /\ HasCol(stock_data, "Signal_Line")

\* C9: the EMA is seeded at the first row and follows
\* ema[i] = a*x[i] + (1-a)*ema[i-1] with a = 2/(span+1), with no undefined
\* prefix: macd and signal_line are defined at every row, both are 0 at the
\* first row, the second row of macd is (a_short - a_long) * (x[1] - x[0]),
\* signal_line follows the recurrence over macd, and for a constant series
\* both are 0 everywhere.
C9_EmaSeeded ==
  MacdDone =>
    LET close == stock_data["Close"]
        macd == stock_data["MACD"]
        sig == stock_data["Signal_Line"]
        n == Len(close)
        g == args.macd_signal
    IN  /\ Len(macd) = n /\ Len(sig) = n
        /\ \A i \in 1..n : IsNum(macd[i]) /\ IsNum(sig[i])
        /\ n >= 1 => macd[1] = Zero /\ sig[1] = Zero
        /\ n >= 2 =>
             macd[2] = FMul(FSub(Num(2, args.macd_short + 1),
                                 Num(2, args.macd_long + 1)),
                            FSub(close[2], close[1]))
        /\ \A i \in 2..n :
             FMul(Num(g + 1, 1), sig[i]) =
               FAdd(FMul(Num(2, 1), macd[i]), FMul(Num(g - 1, 1), sig[i - 1]))
        /\ Constant(close) => \A i \in 1..n : macd[i] = Zero /\ sig[i] = Zero

\* C9 witness: MACD over a three-row series with different spans, non-zero
\* after the first row.
C9_Witness ==
  /\ MacdDone
  /\ Rows(stock_data) = 3
  /\ args.macd_short = 2
  /\ args.macd_long = 3
  /\ args.macd_signal = 2
  /\ stock_data["MACD"][1] = Zero
  /\ stock_data["MACD"][2] # Zero
  /\ stock_data["Signal_Line"][3] # Zero

\* The columns a stage writes.
Writes(stage) ==
  IF stage = StageNames[1] THEN {"Short_MA", "Long_MA"}
  ELSE IF stage = StageNames[2] THEN {"RSI"}
  ELSE IF stage = StageNames[3] THEN {"MACD", "Signal_Line"}
  ELSE IF stage = StageNames[4] THEN {"Signal"}
  ELSE {}

AllColumns ==
  {"Close", "Short_MA", "Long_MA", "RSI", "MACD", "Signal_Line", "Signal"}

\* The four stages in the handler's order.
Pipeline(data, a) ==
  identify_signals(
    calculate_macd(
      calculate_rsi(
        calculate_moving_averages(data, a.short_window, a.long_window),
        a.window),
      a.macd_short, a.macd_long, a.macd_signal))

\* A call leaves every column it does not write, and the row count, as
\* they were, and adds exactly its own columns.
FramePreserved ==
  /\ DOMAIN stock_data' = DOMAIN stock_data \cup Writes(last')
  /\ \A c \in DOMAIN stock_data \ Writes(last') :
       stock_data'[c] = stock_data[c]
  /\ \A c \in DOMAIN stock_data' : Len(stock_data'[c]) = Rows(stock_data)

\* A stage run again with the same parameters changes nothing.
RerunIdempotent ==
  (Writes(last') \subseteq DOMAIN stock_data /\ raised' = "none") =>
    stock_data' = stock_data

\* Whatever the order, once all four stages have run the frame is the one
\* the handler's order gives.
OrderIrrelevant ==
  (DOMAIN stock_data = AllColumns /\ raised = "none") =>
    stock_data = Pipeline(Frame(stock_data["Close"]), args)

\* C10: each stage writes only its own columns and leaves Close, the row
\* count and the other stages' columns unchanged; every order of the four
\* stages with moving averages before signal derivation gives the same
\* frame; running a stage again with the same parameters changes nothing.
C10_StageIndependence ==
  []OrderIrrelevant /\ [][FramePreserved /\ RerunIdempotent]_vars

\* C10 witness: all columns present over three rows and the last call a
\* repeated calculate_moving_averages, after signal derivation.
C10_Witness ==
  /\ DOMAIN stock_data = AllColumns
  /\ raised = "none"
  /\ last = StageNames[1]
  /\ Rows(stock_data) = 3
  /\ \E i \in 1..3 : stock_data["Signal"][i] = 1

====
